---------------------------- MODULE Spec2Model ----------------------------
(***************************************************************************)
(* A model of panda_desk.Desk (src/src/panda_desk/desk.py): one session    *)
(* bound to one host, the token file it persists to, the Desk device it    *)
(* talks to over HTTP and websockets, and a second identity that competes  *)
(* for the device's control token.                                         *)
(*                                                                         *)
(* Every coroutine of Desk is cut at its await points: one action per      *)
(* HTTP request (request and response together), one per websocket         *)
(* connect, one per received frame, one per channel close.  `pc` is the    *)
(* position of the session's single task.                                  *)
(*                                                                         *)
(* Specifications: Spec (the operations of one session against the        *)
(* device), FairSpec (Spec with the progress trio and httpx give),         *)
(* StreamSpec (tasks of the caller consuming the stream generators side by *)
(* side), WaitSpec (the four condition waits, message by message),         *)
(* RequestSpec (_request alone) and StoreSpec (_save_token by sessions     *)
(* bound to several hosts).                                                *)
(***************************************************************************)
EXTENDS FiniteSets, Integers, Sequences, TLC

\* Bounds of the model.
MaxId == 3
MaxBrakes == 2
MaxFrames == 3
MaxHeard == 3

\* The joints of the robot, each with a brake.
Joints == 7

\* The host the session is bound to, and the hosts of the token file.
Hostname == "robot"
Hosts == {"robot", "robot2"}

Usernames == {"alice"}
\* Platform arguments, each the sequence of its characters.
PlatformArgs == {<<"p", "a", "n", "d", "a">>, <<"f", "r", "3">>,
                 <<"f", "e", "r">>, <<"F", "R", "3">>, <<"u", "r", "5">>}
Statuses == {200, 204, 403}
ButtonNames == {"circle", "check"}
BrakeStates == {"Locked", "Unlocked"}

VARIABLES
    hostname, platform, legacy, username, logged_in, cookie, token,
                                                           \* the Desk object
    store,                                                 \* TOKEN_PATH
    devActive, devPending, nextId,                         \* the device
    channels,                                              \* open websockets
    pc, op, force, button, scoped,                         \* the running call
    result, ret, log, tok0, store0,                        \* and its record
    heard,                                   \* the messages a wait looked at
    subs                                     \* the callers' own subscriptions

sessVars == <<hostname, platform, legacy, username, logged_in, cookie>>
devVars == <<devActive, devPending, nextId>>
argVars == <<op, force, button, scoped, tok0, store0>>
streamVars == <<heard, subs>>
deskVars == <<sessVars, token, store, devVars, argVars, pc, result, ret, log>>
vars == <<hostname, platform, legacy, username, logged_in, cookie, token, store,
          devActive, devPending, nextId, channels, pc, op, force, button,
          scoped, result, ret, log, tok0, store0, heard, subs>>

-----------------------------------------------------------------------------
\* Values

\* class Token: the defaults are the "no token held" sentinel.
Token(id, owned_by, secret) == [id |-> id, owned_by |-> owned_by, token |-> secret]
EmptyToken == Token("", "", "")

None == [id |-> 0, ownedBy |-> ""]

Digits == <<"0", "1", "2", "3", "4", "5", "6", "7", "8", "9">>

\* str() of a non-negative integer.
RECURSIVE Str(_)
Str(n) == IF n < 10 THEN Digits[n + 1]
          ELSE Str(n \div 10) \o Digits[(n % 10) + 1]

\* The secret the device hands out with token id n.
Secret(n) == "secret-" \o Str(n)

NoMsg == [kind |-> "none", msg |-> <<>>]
Msg(m) == [kind |-> "msg", msg |-> m]

ButtonDicts == UNION {[S -> BOOLEAN] : S \in SUBSET ButtonNames}
\* Brake states of all joints: the same for all, or for all but the first
\* or the last joint.
JointLists ==
    LET all(b) == [i \in 1..Joints |-> b]
        other(b) == IF b = "Locked" THEN "Unlocked" ELSE "Locked"
    IN {all(b) : b \in BrakeStates}
       \cup {[all(b) EXCEPT ![k] = other(b)] : b \in BrakeStates, k \in {1, Joints}}

\* The brakeState lists of the model: the lists of the joints, and short
\* lists.
BrakeLists == JointLists \cup UNION {[1..n -> BrakeStates] : n \in 0..MaxBrakes}
SafetyDicts == {[brakeState |-> s] : s \in BrakeLists}
                 \cup {[safetyControllerStatus |-> "Idle"]}

\* A websocket frame: text that is JSON for `value`, or text that is not JSON.
Frame(v) == [json |-> TRUE, value |-> v]
Malformed == [json |-> FALSE, value |-> <<>>]

-----------------------------------------------------------------------------
\* Desk.__init__, _load_token, _save_token

\* The letters, upper case and lower case.
UpperCase == <<"A", "B", "C", "D", "E", "F", "G", "H", "I", "J", "K", "L", "M",
              "N", "O", "P", "Q", "R", "S", "T", "U", "V", "W", "X", "Y", "Z">>
LowerCase == <<"a", "b", "c", "d", "e", "f", "g", "h", "i", "j", "k", "l", "m",
              "n", "o", "p", "q", "r", "s", "t", "u", "v", "w", "x", "y", "z">>

\* str.lower() on one character.
LowerChar(c) ==
    IF \E i \in DOMAIN UpperCase : UpperCase[i] = c
    THEN LowerCase[CHOOSE i \in DOMAIN UpperCase : UpperCase[i] = c]
    ELSE c

\* str.lower() on a string given as the sequence of its characters.
Lower(s) == [i \in DOMAIN s |-> LowerChar(s[i])]

\* The string of a sequence of characters.
RECURSIVE Text(_)
Text(s) == IF s = <<>> THEN "" ELSE s[1] \o Text(Tail(s))

\* The platform test of __init__: TRUE when the constructor does not raise.
PlatformAccepted(p) ==
    \/ Text(Lower(p)) \in {"panda", "fer", "franka_emika_robot", "frankaemikarobot"}
    \/ Text(Lower(p)) \in {"fr3", "frankaresearch3", "franka_research_3"}

\* self._platform after __init__: line 84 stores the argument as given.
InitPlatform(p) == Text(p)

\* _load_token: the host's section of the file, or the sentinel.  has_section
\* is False for configparser's section of defaults.
load_token(st, host) ==
    IF host \in DOMAIN st /\ host # "DEFAULT" THEN Token(st[host].id, st[host].owned_by, st[host].token)
    ELSE EmptyToken

\* Mutant: the file is written without having been read.
save_token_Alone(st, host, t) == [h \in {host} |-> t]

\* _save_token: the file re-read, the host's section replaced, all written.
save_token(st, host, t) ==
    [h \in DOMAIN st \cup {host} |-> IF h = host THEN t ELSE st[h]]

-----------------------------------------------------------------------------
\* _request

\* Mutant: only the client and server error statuses raise.
RequestOk_Below400(status) == status < 400

\* Line 783: anything but 200 raises ConnectionError(response.text).
RequestOk(status) == status = 200

\* The device acted on the request: it answered with a success status.
Accepted(status) == status \in 200..299

Entry(kind, a, b, c) == <<kind, a, b, c>>
Req(method, url, status) ==
    Entry("request", method, url, Str(status))

TokenRequestUrl(f) ==
    "/admin/api/control-token/request" \o (IF f THEN "?force" ELSE "")


\* The URL of every HTTP request the call in `log` has issued.
Requested(l) == {l[i][3] : i \in {j \in DOMAIN l : l[j][1] = "request"}}
Has(l, kind) == \E i \in DOMAIN l : l[i][1] = kind
Pos(l, kind) == CHOOSE i \in DOMAIN l : l[i][1] = kind

-----------------------------------------------------------------------------
\* Subscriptions made by the caller

\* The callers' tasks that subscribe to a stream at the same time.
Subs == {"a", "b"}

\* The address of each stream generator.
Streams == {"/desk/api/robot/configuration", "admin/api/system-status",
            "admin/api/safety/status", "desk/api/system/status",
            "desk/api/navigation/events"}

\* A subscription nobody has made yet.
NoSub == [stream |-> "", st |-> "idle", how |-> "", opened |-> 0, closed |-> 0,
          arrived |-> <<>>, taken |-> 0, value |-> NoMsg, delivered |-> <<>>]

-----------------------------------------------------------------------------
\* Construction

\* A token file with no section.
NoStore == [h \in {} |-> EmptyToken]

\* The token file before the session is made: another host's record is in
\* it, and this host's record from an earlier session or none.
InitStores ==
    {[h \in S |-> IF h = Hostname THEN Token("1", "alice", Secret(1))
                  ELSE Token("2", "bob", Secret(2))] :
        S \in {Hosts \ {Hostname}, Hosts}}

Init ==
    /\ hostname = Hostname
    /\ platform \in {InitPlatform(p) : p \in {q \in PlatformArgs : PlatformAccepted(q)}}
    /\ legacy = FALSE
    /\ username = "Not set"
    /\ logged_in = FALSE
    /\ cookie = "None"
    /\ store \in InitStores
    /\ token = load_token(store, hostname)
    /\ devActive \in {None, [id |-> 1, ownedBy |-> "alice"], [id |-> 2, ownedBy |-> "bob"]}
    /\ devPending = None
    /\ nextId = 3
    /\ channels = 0
    /\ pc = "idle"
    /\ op = "none"
    /\ force = FALSE
    /\ button = "circle"
    /\ scoped = FALSE
    /\ result = "none"
    /\ ret = NoMsg
    /\ log = <<>>
    /\ tok0 = EmptyToken
    /\ store0 = NoStore
    /\ heard = <<>>
    /\ subs = [i \in Subs |-> NoSub]

\* A call starts: its arguments, and what the token and the file were.
Begin(o, f, b, sc) ==
    /\ pc = "idle"
    /\ op' = o
    /\ force' = f
    /\ button' = b
    /\ scoped' = sc
    /\ tok0' = token
    /\ store0' = store
    /\ ret' = NoMsg

\* The call ends: it returns r, or raises r.
Return(r) == pc' = "done" /\ result' = r

\* The caller has taken the outcome of the call and goes on; the record of
\* the call is dropped.
returned ==
    /\ pc = "done"
    /\ pc' = "idle"
    /\ op' = "none"
    /\ force' = FALSE
    /\ button' = "circle"
    /\ scoped' = FALSE
    /\ result' = "none"
    /\ ret' = NoMsg
    /\ log' = <<>>
    /\ tok0' = EmptyToken
    /\ store0' = NoStore
    /\ heard' = <<>>
    /\ UNCHANGED <<subs, hostname, platform, legacy, username, logged_in, cookie, token, store,
                   devActive, devPending, nextId, channels>>

-----------------------------------------------------------------------------
\* login, logout

login(u, status) ==
    /\ Begin("login", FALSE, button, FALSE)
    /\ log' = <<Req("post", "/admin/api/login", status)>>
    /\ IF RequestOk(status)
       THEN /\ cookie' = "session-" \o u
            /\ logged_in' = TRUE
            /\ username' = u
            /\ Return("None")
       ELSE /\ UNCHANGED <<cookie, logged_in, username>>
            /\ Return("ConnectionError")
    /\ UNCHANGED <<streamVars, hostname, platform, legacy, token, store, devVars, channels>>

logout(status) ==
    /\ Begin("logout", FALSE, button, FALSE)
    /\ log' = <<Req("post", "/admin/api/logout", status)>>
    /\ IF RequestOk(status)
       THEN logged_in' = FALSE /\ Return("None")
       ELSE UNCHANGED logged_in /\ Return("ConnectionError")
    /\ UNCHANGED <<streamVars, hostname, platform, legacy, username, cookie, token, store, devVars, channels>>

-----------------------------------------------------------------------------
\* set_mode

Modes == {"execution", "programming", "teaching"}

ModeUrl(mode) == "/desk/api/operating-mode/" \o mode

set_mode(mode, status) ==
    /\ Begin("set_mode", FALSE, button, FALSE)
    /\ IF platform = "panda"
       THEN /\ log' = <<Entry("print", "Old panda platform does not support this function", "", "")>>
            /\ Return("None")
       ELSE IF mode \notin {"execution", "programming"}
       THEN /\ log' = <<>>
            /\ Return("ValueError")
       ELSE /\ log' = <<Req("post", ModeUrl(mode), status),
                        Entry("X-Control-Token", token.token, "", "")>>
            /\ Return(IF RequestOk(status) THEN "None" ELSE "ConnectionError")
    /\ UNCHANGED <<streamVars, sessVars, token, store, devVars, channels>>

-----------------------------------------------------------------------------
\* _get_active_token, check_has_control

\* The Token built from the response of GET /admin/api/control-token.
get_active_token(active) ==
    IF active # None THEN Token(Str(active.id), active.ownedBy, "")
    ELSE EmptyToken

check_has_control(status) ==
    /\ Begin("check_has_control", FALSE, button, FALSE)
    /\ IF legacy
       THEN /\ log' = <<>>
            /\ Return(IF token.id = EmptyToken.id THEN "True" ELSE "False")
       ELSE /\ log' = <<Req("get", "/admin/api/control-token", status)>>
            /\ IF RequestOk(status)
               THEN Return(IF token.id = get_active_token(devActive).id
                           THEN "True" ELSE "False")
               ELSE Return("ConnectionError")
    /\ UNCHANGED <<streamVars, sessVars, token, store, devVars, channels>>

-----------------------------------------------------------------------------
\* Streams and condition waits

\* The stream each waiting operation subscribes to.
Stream(o) ==
    IF o \in {"take_control", "wait_for_press", "wait_for_release"}
    THEN "desk/api/navigation/events"
    ELSE "admin/api/safety/status"

\* Mutant: a frame that is not JSON is passed on like any other.
Decodes_Always(fr) == TRUE

\* json.loads of a frame does not raise.
Decodes(fr) == fr.json

\* wait_for_brakes_to_open: all(b == "Unlocked" for b in status['brakeState'])
brakes_unlocked(status) == \A i \in DOMAIN status.brakeState : status.brakeState[i] = "Unlocked"

\* Mutant: any() for all().
brakes_locked_Any(status) == \E i \in DOMAIN status.brakeState : status.brakeState[i] = "Locked"

\* wait_for_brakes_to_close: all(b == "Locked" for b in status['brakeState'])
brakes_locked(status) == \A i \in DOMAIN status.brakeState : status.brakeState[i] = "Locked"

\* Mutant: any button that went down counts.
pressed_AnyButton(b, e) == \E k \in DOMAIN e : e[k] = TRUE

\* wait_for_press: button in e.keys() and e[button] == True
pressed(b, e) == b \in DOMAIN e /\ e[b] = TRUE

\* wait_for_release: button in e.keys() and e[button] == False
released(b, e) == b \in DOMAIN e /\ e[b] = FALSE

\* status['brakeState'] raises KeyError.
KeyMissing(o, m) ==
    /\ Stream(o) = "admin/api/safety/status"
    /\ "brakeState" \notin DOMAIN m

\* The predicate the operation waits for, on a decoded message.
Matches(o, b, m) ==
    IF o \in {"take_control", "wait_for_press"} THEN pressed(b, m)
    ELSE IF o = "wait_for_release" THEN released(b, m)
    ELSE IF o \in {"unlock", "wait_for_brakes_to_open"} THEN brakes_unlocked(m)
    ELSE brakes_locked(m)

\* Mutant: a cancelled wait leaves its websocket open.
ChannelsAfterExit_LeakOnCancel(n, how) == IF how = "cancel" THEN n ELSE n - 1

\* Mutant: a cancelled subscription closes its websocket a second time.
ChannelsAfterExit_TwiceOnCancel(n, how) == IF how = "cancel" THEN n - 2 ELSE n - 1

\* `async with self.connect(...)`: the websocket is closed when the block is
\* left, however it is left ("match", "break", "cancel", "decode", "key",
\* "drop").
ChannelsAfterExit(n, how) == n - 1

\* Mutant: the cancelled scope is not looked at.
GivesUp_Never(cancel_called) == FALSE

\* Line 202: the forced takeover is abandoned when the scope was cancelled.
GivesUp(cancel_called) == cancel_called

\* What the operation returns once its wait matched and the channel closed.
Finished(o) ==
    IF o \in {"wait_for_press", "wait_for_release"} THEN "event" ELSE "None"

\* The websocket handshake of a subscription: it connects, or raises.
wait_open(ok) ==
    /\ pc = "wait_open"
    /\ IF ok
       THEN /\ channels' = channels + 1
            /\ log' = Append(log, Entry("open", Stream(op), "", ""))
            /\ pc' = "wait_recv"
            /\ UNCHANGED result
       ELSE /\ UNCHANGED <<channels, log>>
            /\ Return("HandshakeError")
    /\ UNCHANGED <<streamVars, sessVars, token, store, devVars, argVars, ret>>

\* websocket.get_message() returned frame fr; the consumer looks at it.
\* After a match the consumer leaves the subscription (pc = "wait_close"),
\* while the generator's task is back in get_message().
Receive(fr) ==
    IF ~Decodes(fr)
    THEN /\ channels' = ChannelsAfterExit(channels, "decode")
         /\ log' = Append(log, Entry("close", "decode", "", ""))
         /\ Return("JSONDecodeError")
         /\ UNCHANGED ret
    ELSE IF KeyMissing(op, fr.value)
    THEN /\ channels' = ChannelsAfterExit(channels, "key")
         /\ log' = Append(log, Entry("close", "key", "", ""))
         /\ Return("KeyError")
         /\ UNCHANGED ret
    ELSE IF Matches(op, button, fr.value)
    THEN /\ ret' = Msg(fr.value)
         /\ log' = Append(log, Entry("match", "", "", ""))
         /\ pc' = "wait_close"
         /\ UNCHANGED <<channels, result>>
    ELSE UNCHANGED <<channels, log, pc, result, ret>>

\* Lines 206-209 of take_control: the token of the response is saved under
\* the session's username, and the call returns True.  l is the log so far.
SaveIssued(l) ==
    LET i == Pos(l, "issued")
        t == Token(l[i][2], username, l[i][3])
    IN /\ store' = save_token(store, hostname, t)
       /\ token' = t
       /\ log' = Append(l, Entry("save", hostname, t.id, t.token))
       /\ Return("True")

\* Mutant: take_control saves the issued token before it looks at the scope.
AfterWait_SavesFirst(cancel_called, l) ==
    IF op = "take_control"
    THEN LET i == Pos(l, "issued")
             t == Token(l[i][2], username, l[i][3])
         IN /\ store' = save_token(store, hostname, t)
            /\ token' = t
            /\ log' = Append(l, Entry("save", hostname, t.id, t.token))
            /\ Return(IF cancel_called THEN "False" ELSE "True")
    ELSE /\ log' = l
         /\ Return(IF cancel_called THEN "Cancelled" ELSE Finished(op))
         /\ UNCHANGED <<token, store>>

\* The code after the wait.  In take_control this is lines 202-209; a wait
\* called inside the caller's own move_on_after scope (scripts/example.py,
\* lines 21-22) ends "Cancelled" when that scope cut it short.
AfterWait(cancel_called, l) ==
    IF op = "take_control"
    THEN IF GivesUp(cancel_called)
         THEN /\ log' = l
              /\ Return("False")
              /\ UNCHANGED <<token, store>>
         ELSE SaveIssued(l)
    ELSE /\ log' = l
         /\ Return(IF cancel_called THEN "Cancelled" ELSE Finished(op))
         /\ UNCHANGED <<token, store>>

\* The consumer matched and is leaving `async with ... as generator`; the
\* block is not left before the generator's task has ended, and that task is
\* inside get_message().  Frame fr arrives: a frame that decodes cannot be
\* handed on, the generator is closed and with it the websocket, and the
\* operation goes on after the wait; a frame that does not decode makes
\* json.loads raise in the generator's task, and the block is left with that.
wait_close(fr) ==
    IF Decodes(fr)
    THEN /\ channels' = ChannelsAfterExit(channels, "match")
         /\ AfterWait(FALSE, Append(log, Entry("close", "match", "", "")))
         /\ UNCHANGED ret
    ELSE /\ channels' = ChannelsAfterExit(channels, "decode")
         /\ log' = Append(log, Entry("close", "decode", "", ""))
         /\ Return("JSONDecodeError")
         /\ ret' = NoMsg
         /\ UNCHANGED <<token, store>>

\* A frame arrives on the open channel of the running wait.
Arrives(fr) ==
    IF pc = "wait_close" THEN wait_close(fr)
    ELSE Receive(fr) /\ UNCHANGED <<token, store>>

\* The device has a pending forced request confirmed by a circle press.
Confirms(e) == devPending # None /\ pressed("circle", e)

\* A button changes state on the Pilot: the device sends the event to the
\* open button-events channels; one nobody listens on is gone (no replay).
button_event(e) ==
    /\ IF Confirms(e)
       THEN devActive' = devPending /\ devPending' = None
       ELSE UNCHANGED <<devActive, devPending>>
    /\ IF pc \in {"wait_recv", "wait_close"} /\ Stream(op) = "desk/api/navigation/events"
       THEN Arrives(Frame(e))
       ELSE UNCHANGED <<channels, log, pc, result, ret, token, store>>
    /\ UNCHANGED <<streamVars, sessVars, nextId, argVars>>

\* A safety-status message arrives on the open safety-status channel.
safety_event(m) ==
    /\ pc \in {"wait_recv", "wait_close"}
    /\ Stream(op) = "admin/api/safety/status"
    /\ Arrives(Frame(m))
    /\ UNCHANGED <<streamVars, sessVars, devVars, argVars>>

\* A frame that is not JSON arrives on the open channel.
malformed_event ==
    /\ pc \in {"wait_recv", "wait_close"}
    /\ Arrives(Malformed)
    /\ UNCHANGED <<streamVars, sessVars, devVars, argVars>>

\* The connection drops: get_message raises ConnectionClosed, in the
\* generator's task also when the consumer has matched and is leaving.
connection_closed ==
    /\ pc \in {"wait_recv", "wait_close"}
    /\ channels' = ChannelsAfterExit(channels, "drop")
    /\ log' = Append(log, Entry("close", "drop", "", ""))
    /\ Return("ConnectionClosed")
    /\ ret' = NoMsg
    /\ UNCHANGED <<streamVars, sessVars, token, store, devVars, argVars>>

\* The deadline of the enclosing trio.move_on_after scope expires while the
\* task is inside it: connecting, waiting for a frame, or closing.
wait_timeout ==
    /\ scoped
    /\ pc \in {"wait_open", "wait_recv", "wait_close"}
    /\ channels' = IF pc = "wait_open" THEN channels
                   ELSE ChannelsAfterExit(channels, "cancel")
    /\ ret' = NoMsg
    /\ AfterWait(TRUE, Append(log, Entry("cancel", pc, "", "")))
    /\ UNCHANGED <<streamVars, sessVars, devVars, argVars>>

-----------------------------------------------------------------------------
\* take_control

\* Mutant: force is looked at before the comparison of the ids.
AlreadyInControl_UnlessForced(active, held) ==
    ~force /\ active.id # "" /\ held.id = active.id

\* Line 177: the device's active token is the one held locally.
AlreadyInControl(active, held) == active.id # "" /\ held.id = active.id

\* Mutant: the test for an active token is inverted.
Refused_WhenNobodyHolds(active, f) == active.id = "" /\ ~f

\* Line 180: somebody is in control and no force was asked for.
Refused(active, f) == active.id # "" /\ ~f

\* The device grants a token request: a plain one only while no token is
\* active, a forced one always (it then waits for the circle button).
Grants(f) == nextId <= MaxId /\ (f \/ devActive = None)

\* Mutant: every token request is followed by the confirmation wait.
NeedsConfirmation_Always(f) == TRUE

\* Line 191: only a forced request is followed by the confirmation wait.
NeedsConfirmation(f) == f

take_control(f) ==
    /\ Begin("take_control", f, "circle", TRUE)
    /\ log' = <<>>
    /\ IF legacy
       THEN Return("True")
       ELSE pc' = "tc_active" /\ result' = "running"
    /\ UNCHANGED <<streamVars, sessVars, token, store, devVars, channels>>

\* Lines 176-183: the active token is fetched and compared.
take_control_active(status) ==
    /\ pc = "tc_active"
    /\ LET l == Append(log, Req("get", "/admin/api/control-token", status))
           active == get_active_token(devActive)
       IN IF ~RequestOk(status)
          THEN log' = l /\ Return("ConnectionError")
          ELSE /\ log' = Append(l, Entry("active", active.id, active.owned_by, ""))
               /\ IF AlreadyInControl(active, token) THEN Return("True")
                  ELSE IF Refused(active, force) THEN Return("False")
                  ELSE pc' = "tc_request" /\ UNCHANGED result
    /\ UNCHANGED <<streamVars, sessVars, token, store, devVars, channels, argVars, ret>>

\* Lines 184-190 and, when not forced, 206-209: the token request.
take_control_request(status) ==
    /\ pc = "tc_request"
    /\ Accepted(status) => Grants(force)
    /\ IF Accepted(status)
       THEN /\ nextId' = nextId + 1
            /\ IF force
               THEN devPending' = [id |-> nextId, ownedBy |-> username]
                    /\ UNCHANGED devActive
               ELSE devActive' = [id |-> nextId, ownedBy |-> username]
                    /\ UNCHANGED devPending
       ELSE UNCHANGED devVars
    /\ LET lr == Append(log, Req("post", TokenRequestUrl(force), status))
           \* the device's reason when it refuses a plain request
           l == IF ~force /\ devActive # None
                THEN Append(lr, Entry("held-by", Str(devActive.id), devActive.ownedBy, ""))
                ELSE lr
           li == Append(l, Entry("issued", Str(nextId), Secret(nextId), ""))
       IN IF ~RequestOk(status)
          THEN log' = l /\ Return("ConnectionError") /\ UNCHANGED <<token, store>>
          ELSE IF NeedsConfirmation(force)
          THEN log' = li /\ pc' = "tc_safety" /\ UNCHANGED <<result, token, store>>
          ELSE SaveIssued(li)
    /\ UNCHANGED <<streamVars, sessVars, channels, argVars, ret>>

\* Lines 192-197: the confirmation window is read from the safety settings.
take_control_safety(status) ==
    /\ pc = "tc_safety"
    /\ log' = Append(log, Req("get", "/admin/api/safety", status))
    /\ IF RequestOk(status)
       THEN pc' = "wait_open" /\ UNCHANGED result
       ELSE Return("ConnectionError")
    /\ UNCHANGED <<streamVars, sessVars, token, store, devVars, channels, argVars, ret>>

-----------------------------------------------------------------------------
\* lock, unlock

Unbound == "UnboundLocalError"

\* Lines 667-670: the path by platform; no branch binds `url` otherwise.
LockUrl(p) ==
    IF p = "panda" THEN "/desk/api/robot/close-brakes"
    ELSE IF p = "fr3" THEN "/desk/api/joints/lock"
    ELSE Unbound

\* Lines 683-686.
UnlockUrl(p) ==
    IF p = "panda" THEN "/desk/api/robot/open-brakes"
    ELSE IF p = "fr3" THEN "/desk/api/joints/unlock"
    ELSE Unbound

\* The privileged POST of lock and unlock, then on to the brake wait.  The
\* `force` argument of both is only passed on in the request body.  The
\* request is awaited inside the caller's scope (sc), whose deadline may
\* pass before the answer is there.
Brakes(url, sc, status) ==
    IF url = Unbound
    THEN log' = <<>> /\ Return(Unbound)
    ELSE \/ /\ log' = <<Req("post", url, status),
                        Entry("X-Control-Token", token.token, "", "")>>
            /\ IF RequestOk(status)
               THEN pc' = "wait_open" /\ result' = "running"
               ELSE Return("ConnectionError")
         \/ /\ sc
            /\ log' = <<Entry("cancel", pc, "", "")>>
            /\ Return("Cancelled")

lock(sc, status) ==
    /\ Begin("lock", FALSE, button, sc)
    /\ Brakes(LockUrl(platform), sc, status)
    /\ UNCHANGED <<streamVars, sessVars, token, store, devVars, channels>>

unlock(sc, status) ==
    /\ Begin("unlock", FALSE, button, sc)
    /\ Brakes(UnlockUrl(platform), sc, status)
    /\ UNCHANGED <<streamVars, sessVars, token, store, devVars, channels>>

-----------------------------------------------------------------------------
\* reboot, activate_fci, deactivate_fci

\* Lines 773-775: _request hands json= and files= to every method but get;
\* httpx's AsyncClient.delete() takes neither, so the call raises TypeError
\* and nothing is sent.
Unsendable(method) == method = "delete"

\* One privileged request carrying the held secret, and nothing else.
Privileged(method, url, field, status) ==
    IF Unsendable(method)
    THEN /\ log' = <<>>
         /\ Return("TypeError")
    ELSE /\ log' = <<Req(method, url, status), Entry(field, token.token, "", "")>>
         /\ Return(IF RequestOk(status) THEN "None" ELSE "ConnectionError")

reboot(status) ==
    /\ Begin("reboot", FALSE, button, FALSE)
    /\ Privileged("post", "/admin/api/reboot", "X-Control-Token", status)
    /\ UNCHANGED <<streamVars, sessVars, token, store, devVars, channels>>

activate_fci(status) ==
    /\ Begin("activate_fci", FALSE, button, FALSE)
    /\ IF ~legacy
       THEN Privileged("post", "/admin/api/control-token/fci", "token", status)
       ELSE log' = <<>> /\ Return("None")
    /\ UNCHANGED <<streamVars, sessVars, token, store, devVars, channels>>

deactivate_fci(status) ==
    /\ Begin("deactivate_fci", FALSE, button, FALSE)
    /\ IF ~legacy
       THEN Privileged("delete", "/admin/api/control-token/fci", "token", status)
       ELSE log' = <<>> /\ Return("None")
    /\ UNCHANGED <<streamVars, sessVars, token, store, devVars, channels>>

-----------------------------------------------------------------------------
\* The condition waits, called on their own

\* sc: the caller wrapped the call in a trio.move_on_after scope.
Wait(o, b, sc) ==
    /\ Begin(o, FALSE, b, sc)
    /\ log' = <<>>
    /\ pc' = "wait_open"
    /\ result' = "running"
    /\ UNCHANGED <<streamVars, sessVars, token, store, devVars, channels>>

wait_for_press(b, sc) == Wait("wait_for_press", b, sc)
wait_for_release(b, sc) == Wait("wait_for_release", b, sc)
wait_for_brakes_to_open(sc) == Wait("wait_for_brakes_to_open", button, sc)
wait_for_brakes_to_close(sc) == Wait("wait_for_brakes_to_close", button, sc)

-----------------------------------------------------------------------------
\* The other identity on the same device

\* Somebody else takes the control token while nobody holds it.
other_takes_control ==
    /\ devActive = None
    /\ nextId <= MaxId
    /\ devActive' = [id |-> nextId, ownedBy |-> "bob"]
    /\ nextId' = nextId + 1
    /\ UNCHANGED <<streamVars, sessVars, token, store, devPending, channels, pc, argVars,
                   result, ret, log>>

\* The holder of the control token gives it up in Desk.
control_released ==
    /\ devActive # None
    /\ devActive' = None
    /\ UNCHANGED <<streamVars, sessVars, token, store, devPending, nextId, channels, pc,
                   argVars, result, ret, log>>

\* The device's confirmation window for a forced request runs out.
pending_expires ==
    /\ devPending # None
    /\ devPending' = None
    /\ UNCHANGED <<streamVars, sessVars, token, store, devActive, nextId, channels, pc,
                   argVars, result, ret, log>>

-----------------------------------------------------------------------------
Next ==
    \/ \E u \in Usernames, status \in Statuses : login(u, status)
    \/ \E status \in Statuses : logout(status)
    \/ \E mode \in Modes, status \in Statuses : set_mode(mode, status)
    \/ \E status \in Statuses : check_has_control(status)
    \/ \E f \in BOOLEAN : take_control(f)
    \/ \E status \in Statuses : take_control_active(status)
    \/ \E status \in Statuses : take_control_request(status)
    \/ \E status \in Statuses : take_control_safety(status)
    \/ \E sc \in BOOLEAN, status \in Statuses : lock(sc, status)
    \/ \E sc \in BOOLEAN, status \in Statuses : unlock(sc, status)
    \/ \E status \in Statuses : reboot(status)
    \/ \E status \in Statuses : activate_fci(status)
    \/ \E status \in Statuses : deactivate_fci(status)
    \/ \E b \in ButtonNames, sc \in BOOLEAN : wait_for_press(b, sc)
    \/ \E b \in ButtonNames, sc \in BOOLEAN : wait_for_release(b, sc)
    \/ \E sc \in BOOLEAN : wait_for_brakes_to_open(sc)
    \/ \E sc \in BOOLEAN : wait_for_brakes_to_close(sc)
    \/ \E ok \in BOOLEAN : wait_open(ok)
    \/ \E e \in ButtonDicts : button_event(e)
    \/ \E m \in SafetyDicts : safety_event(m)
    \/ malformed_event
    \/ connection_closed
    \/ wait_timeout
    \/ other_takes_control
    \/ control_released
    \/ pending_expires
    \/ returned

Spec == Init /\ [][Next]_vars

\* The same session started with nothing stored and nobody in control, with
\* what trio and httpx guarantee: an expired deadline cancels its scope, the
\* handshake ends one way or the other, and every HTTP request ends (they
\* carry a timeout).  Nothing obliges the device to send a frame, and a
\* subscription is only left when its generator's task has ended.
LiveInit ==
    /\ Init
    /\ platform = "fr3"
    /\ store = [h \in Hosts \ {Hostname} |-> Token("2", "bob", Secret(2))]
    /\ devActive = None

FairSpec ==
    /\ LiveInit
    /\ [][Next]_vars
    /\ WF_vars(wait_timeout)
    /\ WF_vars(\E ok \in BOOLEAN : wait_open(ok))
    /\ WF_vars(\E status \in Statuses : take_control_active(status))
    /\ WF_vars(\E status \in Statuses : take_control_request(status))
    /\ WF_vars(\E status \in Statuses : take_control_safety(status))

-----------------------------------------------------------------------------
\* Properties of take_control

\* The id of the active token the running take_control was told of.
SeenActive == log[Pos(log, "active")][2]

\* take_control has ended after the device reported an active token.
EndedSeeing(id_matches) ==
    /\ pc = "done"
    /\ op = "take_control"
    /\ Has(log, "active")
    /\ SeenActive # ""
    /\ (SeenActive = tok0.id) = id_matches

\* The call has only read the active token: nothing requested, opened or
\* written, and the token and the file are what they were when it started.
OnlyAsked ==
    /\ Requested(log) = {"/admin/api/control-token"}
    /\ ~Has(log, "open")
    /\ ~Has(log, "save")
    /\ channels = 0
    /\ store = store0
    /\ token = tok0

\* C1: take_control(force=False) that is told of an active token with another
\* id than the one held returns False and has done nothing but ask: no token
\* request, no channel, no write to the token file, the held token unchanged.
C1_RefusalHasNoEffect ==
    (EndedSeeing(FALSE) /\ ~force) => (result = "False" /\ OnlyAsked)

C1_Witness ==
    /\ EndedSeeing(FALSE)
    /\ ~force
    /\ result = "False"
    /\ tok0.id # ""

\* C2: with either value of force, take_control that is told of an active
\* token with the id of the held token returns True and has done nothing but
\* ask: no token request, no read of /admin/api/safety, no channel, no write.
C2_HeldControlIsKept ==
    EndedSeeing(TRUE) => (result = "True" /\ OnlyAsked)

C2_Witness ==
    /\ EndedSeeing(TRUE)
    /\ force
    /\ result = "True"

\* C3: a forced take_control whose window runs out with no circle press seen
\* returns False, and the token file and the held token are what they were
\* before the call, although the device had issued an id and a secret.
C3_TimeoutKeepsToken ==
    (/\ pc = "done"
     /\ op = "take_control"
     /\ force
     /\ Has(log, "cancel")
     /\ ~Has(log, "match"))
    => /\ result = "False"
       /\ Has(log, "issued")
       /\ ~Has(log, "save")
       /\ store = store0
       /\ token = tok0

C3_Witness ==
    /\ pc = "done"
    /\ op = "take_control"
    /\ force
    /\ Has(log, "open")
    /\ Has(log, "cancel")
    /\ ~Has(log, "match")
    /\ Has(log, "issued")
    /\ result = "False"

\* The token the running take_control was issued, owned by the session's user.
IssuedToken == Token(log[Pos(log, "issued")][2], username, log[Pos(log, "issued")][3])

\* C4: a forced take_control that saw {circle: true} before the timeout
\* returns True and has saved, for this host, the issued id and secret under
\* the session's username, the write coming after the event.
C4_ConfirmedIsTaken ==
    (/\ pc = "done"
     /\ op = "take_control"
     /\ force
     /\ Has(log, "match"))
    => /\ result = "True"
       /\ Has(log, "save")
       /\ Pos(log, "match") < Pos(log, "save")
       /\ Hostname \in DOMAIN store
       /\ store[Hostname] = IssuedToken
       /\ token = IssuedToken

\* The same with the wait left before the deadline, on a further frame that
\* decodes: the code does save then.
ConfirmedInTimeIsTaken ==
    (/\ pc = "done"
     /\ op = "take_control"
     /\ force
     /\ Has(log, "match")
     /\ \E k \in DOMAIN log : log[k] = Entry("close", "match", "", ""))
    => /\ result = "True"
       /\ Pos(log, "match") < Pos(log, "save")
       /\ store[Hostname] = IssuedToken
       /\ token = IssuedToken

\* C5: a plain take_control that another identity's hold defeats, whether the
\* hold is seen in the active token or only met by the token request, ends
\* with the result False and not with an exception.
C5_RefusalIsAResult ==
    (/\ pc = "done"
     /\ op = "take_control"
     /\ ~force
     /\ \/ Has(log, "active") /\ SeenActive \notin {"", tok0.id}
        \/ Has(log, "held-by") /\ log[Pos(log, "held-by")][3] # username)
    => result = "False"

\* C6: with platform 'panda', take_control returns True and activate_fci and
\* deactivate_fci return, none of them issuing a request, opening a channel
\* or writing the token file.
C6_LegacyDoesNothing ==
    (platform = "panda" /\ op \in {"take_control", "activate_fci", "deactivate_fci"})
    => /\ Requested(log) = {}
       /\ ~Has(log, "open")
       /\ ~Has(log, "save")
       /\ pc = "done" => result = (IF op = "take_control" THEN "True" ELSE "None")

\* C7: with platform 'panda', set_mode issues no request and ends in another
\* way than a mode switch that succeeded does (which returns None).
C7_UnsupportedIsSignalled ==
    (pc = "done" /\ op = "set_mode" /\ platform = "panda")
    => (Requested(log) = {} /\ result # "None")

-----------------------------------------------------------------------------
\* Properties of lock, unlock and the waits

\* C8: lock (unlock) returns only after its POST succeeded, a channel was
\* opened after that, and a message on it had every brakeState entry
\* "Locked" ("Unlocked").
C8_BrakesConfirmed ==
    (pc = "done" /\ op \in {"lock", "unlock"} /\ result = "None")
    => /\ Len(log) >= 4
       /\ log[1] = Req("post", IF op = "lock" THEN LockUrl(platform)
                               ELSE UnlockUrl(platform), 200)
       /\ Has(log, "open")
       /\ Has(log, "match")
       /\ 1 < Pos(log, "open")
       /\ Pos(log, "open") < Pos(log, "match")
       /\ ret.kind = "msg"
       /\ "brakeState" \in DOMAIN ret.msg
       /\ \A i \in DOMAIN ret.msg.brakeState :
             ret.msg.brakeState[i] = (IF op = "lock" THEN "Locked" ELSE "Unlocked")

C8_Witness ==
    /\ pc = "done"
    /\ op = "lock"
    /\ result = "None"
    /\ ret.kind = "msg"
    /\ Len(ret.msg.brakeState) >= 2

\* C9: the brake wait of a lock or unlock that the device accepted always
\* comes to an end.
C9_BrakeWaitEnds ==
    (pc = "wait_recv" /\ op \in {"lock", "unlock"} /\ ~scoped) ~> (pc = "done")

\* The confirmation wait of take_control does come to an end.
ConfirmationWaitEnds ==
    (pc \in {"wait_open", "wait_recv", "wait_close"} /\ op = "take_control")
        ~> (pc = "done")

\* C10: no call that has returned or raised has left a channel open, and a
\* running call holds at most the one channel of its wait.
C10_ChannelsClosed ==
    /\ pc \in {"idle", "done"} => channels = 0
    /\ pc \in {"wait_recv", "wait_close"} => channels = 1
    /\ channels \in {0, 1}

C10_Witness ==
    /\ pc = "done"
    /\ op = "take_control"
    /\ Has(log, "open")
    /\ Has(log, "cancel")
    /\ nextId = MaxId + 1
    /\ channels = 0

-----------------------------------------------------------------------------
\* The stream generators, each consumed by a task of the caller:
\*     async with self.connect(address) as websocket:
\*         while True:
\*             event = await websocket.get_message()
\*             yield json_module.loads(event)

\* The content of the k-th message the device sends on a channel.
Message(k) == [sequenceNumber |-> k]

\* json.loads of a frame that decodes.
Loads(fr) == fr.value

\* Mutant: the newest frame of the channel is handed out first.
NextFrame_Newest(arrived, taken) == arrived[Len(arrived)]

\* websocket.get_message(): the frames of a channel in the order they came.
NextFrame(arrived, taken) == arrived[taken + 1]

RECURSIVE Arrived(_)
Arrived(S) == IF S = {} THEN 0
              ELSE LET i == CHOOSE j \in S : TRUE
                   IN Len(subs[i].arrived) + Arrived(S \ {i})

\* Frames the device has sent on all channels.
FramesSent == Arrived(Subs)

\* The subscription's `async with` block is left with the websocket open: the
\* websocket is closed with it.  sb is the subscriptions at that moment.
Exit(sb, i, how) ==
    /\ subs' = [sb EXCEPT ![i].st = "ended", ![i].how = how, ![i].value = NoMsg,
                          ![i].closed = @ + (channels - ChannelsAfterExit(channels, how))]
    /\ channels' = ChannelsAfterExit(channels, how)

\* A task of the caller enters `async with desk.<stream>() as generator`.
Subscribe(i, address) ==
    /\ subs[i].st = "idle"
    /\ subs' = [subs EXCEPT ![i].st = "connecting", ![i].stream = address]
    /\ UNCHANGED <<heard, deskVars, channels>>

robot_states(i) == Subscribe(i, "/desk/api/robot/configuration")
general_system_status(i) == Subscribe(i, "admin/api/system-status")
safety_status(i) == Subscribe(i, "admin/api/safety/status")
system_status(i) == Subscribe(i, "desk/api/system/status")
button_events(i) == Subscribe(i, "desk/api/navigation/events")

\* The websocket handshake of the subscription: a channel of its own, or
\* the handshake error.
connect(i, ok) ==
    /\ subs[i].st = "connecting"
    /\ IF ok
       THEN /\ subs' = [subs EXCEPT ![i].st = "receiving", ![i].opened = @ + 1]
            /\ channels' = channels + 1
       ELSE /\ subs' = [subs EXCEPT ![i].st = "ended", ![i].how = "refused"]
            /\ UNCHANGED channels
    /\ UNCHANGED <<heard, deskVars>>

\* The device sends its next frame on the open channel of the subscription.
device_sends(i, json) ==
    /\ subs[i].st \in {"receiving", "yielding", "leaving"}
    /\ FramesSent < MaxFrames
    /\ subs' = [subs EXCEPT ![i].arrived =
                   Append(@, IF json THEN Frame(Message(Len(@) + 1)) ELSE Malformed)]
    /\ UNCHANGED <<heard, deskVars, channels>>

\* The generator takes a frame from its channel and decodes it: the message
\* is yielded, or json.loads raises and the subscription is left.  A message
\* yielded to a consumer that is leaving cannot be handed on: the generator
\* is closed, and the block is left.
get_message(i) ==
    /\ subs[i].st \in {"receiving", "leaving"}
    /\ subs[i].taken < Len(subs[i].arrived)
    /\ LET fr == NextFrame(subs[i].arrived, subs[i].taken)
           sb == [subs EXCEPT ![i].taken = @ + 1]
       IN IF ~Decodes(fr)
          THEN Exit(sb, i, "decode")
          ELSE IF subs[i].st = "leaving"
          THEN Exit(sb, i, "break")
          ELSE /\ subs' = [sb EXCEPT ![i].st = "yielding", ![i].value = Msg(Loads(fr))]
               /\ UNCHANGED channels
    /\ UNCHANGED <<heard, deskVars>>

\* The consumer's `async for` takes the yielded message; the generator goes
\* back to get_message.
next_message(i) ==
    /\ subs[i].st = "yielding"
    /\ subs' = [subs EXCEPT ![i].st = "receiving", ![i].value = NoMsg,
                            ![i].delivered = Append(@, subs[i].value.msg)]
    /\ UNCHANGED <<heard, deskVars, channels>>

\* The consumer's task is cancelled: the generator's task, which runs in a
\* nursery inside the cancelled scope, is cancelled with it.
cancelled(i) ==
    /\ subs[i].st \in {"connecting", "receiving", "yielding", "leaving"}
    /\ IF subs[i].st = "connecting"
       THEN /\ subs' = [subs EXCEPT ![i].st = "ended", ![i].how = "cancel"]
            /\ UNCHANGED channels
       ELSE Exit(subs, i, "cancel")
    /\ UNCHANGED <<heard, deskVars>>

\* The consumer breaks out of its loop and leaves the block.  The block is
\* left when the generator's task has ended: at once if that task has a
\* message to hand on (it finds the consumer's end closed), otherwise when
\* its get_message() has returned or raised.
breaks_out(i) ==
    /\ subs[i].st \in {"receiving", "yielding"}
    /\ IF subs[i].st = "yielding"
       THEN Exit(subs, i, "break")
       ELSE /\ subs' = [subs EXCEPT ![i].st = "leaving"]
            /\ UNCHANGED channels
    /\ UNCHANGED <<heard, deskVars>>

\* The connection of the subscription drops: get_message raises.
dropped(i) ==
    /\ subs[i].st \in {"receiving", "leaving"}
    /\ Exit(subs, i, "drop")
    /\ UNCHANGED <<heard, deskVars>>

StreamNext ==
    \/ \E i \in Subs : robot_states(i)
    \/ \E i \in Subs : general_system_status(i)
    \/ \E i \in Subs : safety_status(i)
    \/ \E i \in Subs : system_status(i)
    \/ \E i \in Subs : button_events(i)
    \/ \E i \in Subs, ok \in BOOLEAN : connect(i, ok)
    \/ \E i \in Subs, json \in BOOLEAN : device_sends(i, json)
    \/ \E i \in Subs : get_message(i)
    \/ \E i \in Subs : next_message(i)
    \/ \E i \in Subs : cancelled(i)
    \/ \E i \in Subs : breaks_out(i)
    \/ \E i \in Subs : dropped(i)

\* Tasks of the caller that consume streams while the session makes no call.
StreamSpec == LiveInit /\ [][StreamNext]_vars

-----------------------------------------------------------------------------
\* Properties of the streams

\* C11: a subscription to any of the five streams opens one channel of its
\* own, open while the subscription lasts, and that channel is closed once
\* (not left open, not closed twice) when the consumer is cancelled or breaks
\* out, whatever frames have come or been taken by then.
C11_OneChannelClosedOnce ==
    \A i \in Subs :
        LET s == subs[i]
        IN /\ s.opened <= 1
           /\ s.closed <= s.opened
           /\ s.st \in {"receiving", "yielding", "leaving"} => (s.opened = 1 /\ s.closed = 0)
           /\ (s.st = "ended" /\ s.opened = 1) => s.closed = 1
           /\ channels = Cardinality({j \in Subs :
                   subs[j].st \in {"receiving", "yielding", "leaving"}})

C11_Witness ==
    \E i \in Subs :
        /\ subs[i].st = "ended"
        /\ subs[i].how = "cancel"
        /\ subs[i].closed = 1
        /\ Len(subs[i].delivered) = 1
        /\ Len(subs[i].arrived) >= 2
        /\ \E j \in Subs \ {i} : subs[j].st = "receiving"

-----------------------------------------------------------------------------
\* The condition waits, with the messages they looked at kept

\* The consumer of a wait takes the next message of its stream and tests it.
button_message(e) ==
    /\ pc \in {"wait_recv", "wait_close"}
    /\ Stream(op) = "desk/api/navigation/events"
    /\ pc = "wait_recv" => Len(heard) < MaxHeard
    /\ Arrives(Frame(e))
    /\ heard' = IF pc = "wait_recv" THEN Append(heard, e) ELSE heard
    /\ UNCHANGED <<subs, sessVars, devVars, argVars>>

safety_message(m) ==
    /\ pc \in {"wait_recv", "wait_close"}
    /\ Stream(op) = "admin/api/safety/status"
    /\ pc = "wait_recv" => Len(heard) < MaxHeard
    /\ Arrives(Frame(m))
    /\ heard' = IF pc = "wait_recv" THEN Append(heard, m) ELSE heard
    /\ UNCHANGED <<subs, sessVars, devVars, argVars>>

WaitNext ==
    \/ \E b \in ButtonNames : wait_for_press(b, FALSE)
    \/ \E b \in ButtonNames : wait_for_release(b, FALSE)
    \/ wait_for_brakes_to_open(FALSE)
    \/ wait_for_brakes_to_close(FALSE)
    \/ \E ok \in BOOLEAN : wait_open(ok)
    \/ \E e \in ButtonDicts : button_message(e)
    \/ \E m \in SafetyDicts : safety_message(m)
    \/ returned

\* The four waits called on their own, one after the other.
WaitSpec == LiveInit /\ [][WaitNext]_vars

-----------------------------------------------------------------------------
\* Properties of the condition waits

\* The message has the brake state of all the robot's joints, each `state`.
AllJoints(m, state) ==
    /\ "brakeState" \in DOMAIN m
    /\ Len(m.brakeState) = Joints
    /\ \A i \in 1..Joints : m.brakeState[i] = state

\* The state wait_for_brakes_to_open or wait_for_brakes_to_close waits for.
Target == IF op = "wait_for_brakes_to_open" THEN "Unlocked" ELSE "Locked"

\* C12: wait_for_brakes_to_open (wait_for_brakes_to_close) returns at the
\* first safety-status message that has seven brakeState entries, all
\* "Unlocked" ("Locked"): it goes on waiting while no such message has come,
\* and the message it returns at is such a message.
C12_ReturnsAtSevenAgreeing ==
    op \in {"wait_for_brakes_to_open", "wait_for_brakes_to_close"}
    => /\ pc = "wait_recv" => \A k \in DOMAIN heard : ~AllJoints(heard[k], Target)
       /\ (pc \in {"wait_close", "done"} /\ ret.kind = "msg")
          => /\ AllJoints(heard[Len(heard)], Target)
             /\ \A k \in 1..(Len(heard) - 1) : ~AllJoints(heard[k], Target)

\* What the code does wait for: every entry the message has, be they seven,
\* fewer or none, is the target state.
BrakeWaitReturnsAtAllOfAny ==
    op \in {"wait_for_brakes_to_open", "wait_for_brakes_to_close"}
    => LET agree(m) == \A i \in DOMAIN m.brakeState : m.brakeState[i] = Target
       IN /\ pc = "wait_recv" => \A k \in DOMAIN heard : ~agree(heard[k])
          /\ (pc \in {"wait_close", "done"} /\ ret.kind = "msg")
             => /\ agree(heard[Len(heard)])
                /\ ret.msg = heard[Len(heard)]
                /\ \A k \in 1..(Len(heard) - 1) : ~agree(heard[k])

\* The message says that button b is (`down` TRUE) pressed or (FALSE) released.
Says(e, b, down) == b \in DOMAIN e /\ e[b] = down

\* C13: wait_for_press(b) passes over every message without the key b or
\* with b false and returns the first message with b true; wait_for_release
\* the same with true and false exchanged; what a message says of other
\* buttons plays no part.
C13_ReturnsFirstEventOfButton ==
    op \in {"wait_for_press", "wait_for_release"}
    => LET down == (op = "wait_for_press")
       IN /\ pc = "wait_recv" => \A k \in DOMAIN heard : ~Says(heard[k], button, down)
          /\ (pc \in {"wait_close", "done"} /\ heard # <<>>)
             => /\ Says(heard[Len(heard)], button, down)
                /\ ret = Msg(heard[Len(heard)])
                /\ \A k \in 1..(Len(heard) - 1) : ~Says(heard[k], button, down)
          /\ (pc = "done" /\ heard # <<>>) => result = "event"

C13_Witness ==
    /\ op = "wait_for_press"
    /\ pc = "done"
    /\ result = "event"
    /\ button = "circle"
    /\ Len(heard) = 3
    /\ heard[1] = [check |-> TRUE]
    /\ heard[2] = [circle |-> FALSE, check |-> TRUE]
    /\ ret.msg = [circle |-> TRUE, check |-> FALSE]

-----------------------------------------------------------------------------
\* _request on its own

Methods == {"get", "post", "delete"}
Urls == {"/admin/api/login", "/admin/api/control-token", "/admin/api/reboot",
         "/desk/api/joints/lock"}
HttpStatuses == {200, 201, 204, 301, 401, 403, 404, 500}
Bodies == {"", "Forbidden", "{\"message\": \"no control token\"}"}

\* Lines 783-786: what _request does with the response.
RequestOutcome(status, text) ==
    IF RequestOk(status) THEN Entry("return", "Response", Str(status), text)
    ELSE Entry("raise", "ConnectionError", text, "")

\* _request(method, url) answered with `status` and the body `text`.
request(method, url, status, text) ==
    /\ Begin("_request", FALSE, button, FALSE)
    /\ IF Unsendable(method)
       THEN /\ log' = <<Entry("raise", "TypeError", "", "")>>
            /\ Return("TypeError")
       ELSE /\ log' = <<Req(method, url, status),
                        Entry("response", Str(status), text, ""),
                        RequestOutcome(status, text)>>
            /\ Return(RequestOutcome(status, text)[2])
    /\ UNCHANGED <<streamVars, sessVars, token, store, devVars, channels>>

RequestNext ==
    \/ \E method \in Methods, url \in Urls, status \in HttpStatuses, text \in Bodies :
           request(method, url, status, text)
    \/ returned

RequestSpec == LiveInit /\ [][RequestNext]_vars

\* C14: a response with a status outside 200..299, to any method and path,
\* makes _request raise ConnectionError with the text of the response body
\* as its argument; the response is not returned.
C14_NonSuccessRaisesWithBody ==
    (pc = "done" /\ op = "_request" /\ Has(log, "response"))
    => \A s \in HttpStatuses :
           (log[2][2] = Str(s) /\ s \notin 200..299)
           => /\ result = "ConnectionError"
              /\ log[3] = Entry("raise", "ConnectionError", log[2][3], "")

C14_Witness ==
    /\ pc = "done"
    /\ op = "_request"
    /\ log[1] = Req("post", "/admin/api/control-token", 404)
    /\ log[2] = Entry("response", "404", "Forbidden", "")
    /\ result = "ConnectionError"

\* In every operation: a request answered with a status outside 200..299 is
\* the last thing the operation does, and the operation raises.
NonSuccessEndsTheCall ==
    \A k \in DOMAIN log :
        (log[k][1] = "request" /\ log[k][4] \notin {Str(s) : s \in 200..299})
        => /\ pc = "done"
           /\ result = "ConnectionError"
           /\ ~Has(log, "open")
           /\ ~Has(log, "save")

-----------------------------------------------------------------------------
\* _save_token on its own: sessions bound to several hosts share TOKEN_PATH

\* Hosts sessions are bound to; "DEFAULT" is also the name configparser
\* gives its section of defaults.
StoreHosts == Hosts \cup {"DEFAULT"}

\* Tokens a device may have issued to one of two users.
StoreTokens == {Token(Str(n), u, Secret(n)) : n \in {1, 2}, u \in {"alice", "bob"}}

\* Desk(host, p): a session is made for `host`; it starts with the token the
\* file has for the host.  The session before it is no longer used.
construct(host, p) ==
    /\ pc = "idle"
    /\ PlatformAccepted(p)
    /\ hostname' = host
    /\ platform' = InitPlatform(p)
    /\ legacy' = FALSE
    /\ logged_in' = FALSE
    /\ username' = "Not set"
    /\ cookie' = "None"
    /\ token' = load_token(store, host)
    /\ UNCHANGED <<streamVars, store, devVars, channels, argVars, pc, result,
                   ret, log>>

\* The session saves token t: the file first, then the held token.
save(t) ==
    /\ Begin("_save_token", FALSE, button, FALSE)
    /\ store' = save_token(store, hostname, t)
    /\ token' = t
    /\ log' = <<Entry("save", hostname, t.id, t.token)>>
    /\ Return("None")
    /\ UNCHANGED <<streamVars, sessVars, devVars, channels>>

StoreNext ==
    \/ \E host \in StoreHosts, p \in PlatformArgs : construct(host, p)
    \/ \E t \in StoreTokens : save(t)
    \/ returned

StoreSpec == LiveInit /\ [][StoreNext]_vars

\* C15: after a save for host h, every other host that had a record in the
\* file still has it, with the same id, owned_by and token, and reads back
\* as before; h's record is the saved token.  This holds at every save of
\* every sequence of saves.
C15_SaveKeepsOtherHosts ==
    (pc = "done" /\ op = "_save_token")
    => LET h == log[1][2]
       IN /\ \A g \in DOMAIN store0 \ {h} :
                /\ g \in DOMAIN store
                /\ store[g].id = store0[g].id
                /\ store[g].owned_by = store0[g].owned_by
                /\ store[g].token = store0[g].token
                /\ load_token(store, g) = load_token(store0, g)
          /\ h \in DOMAIN store
          /\ store[h] = Token(log[1][3], store[h].owned_by, log[1][4])
          /\ DOMAIN store = DOMAIN store0 \cup {h}

C15_Witness ==
    /\ pc = "done"
    /\ op = "_save_token"
    /\ log[1][2] = "robot"
    /\ DOMAIN store0 = StoreHosts
    /\ store["robot"] # store0["robot"]
    /\ store["robot2"] # store["DEFAULT"]

-----------------------------------------------------------------------------
\* Properties of login and of the privileged requests

\* The status codes that stand for success, as the request log writes them.
SuccessCodes == {Str(s) : s \in 200..299}

\* The step is a whole call of login.
LoginStep == pc = "idle" /\ pc' = "done" /\ op' = "login"

\* login has stored the session: the text the device returned is the cookie,
\* the session is logged in under the name given.
LoggedInAfter ==
    /\ result' = "None"
    /\ logged_in'
    /\ username' \in Usernames
    /\ cookie' = "session-" \o username'

\* login has raised and left the session as it was.
LoginRaisedAndLeft ==
    /\ result' = "ConnectionError"
    /\ UNCHANGED <<logged_in, cookie, username>>

\* C16: a login whose request is answered with a success status stores the
\* returned text as the cookie, marks the session logged in and records the
\* username; a login answered with any other status raises and leaves the
\* logged-in flag, the cookie and the username as they were.
C16_LoginStoresOrLeaves ==
    [][LoginStep => IF log'[1][4] \in SuccessCodes THEN LoggedInAfter
                    ELSE LoginRaisedAndLeft]_vars

\* The same for the answer 200 and for the answers that are no success.
LoginOn200OrRejected ==
    [][LoginStep => /\ log'[1][4] = "200" => LoggedInAfter
                    /\ log'[1][4] \notin SuccessCodes => LoginRaisedAndLeft]_vars

\* The operation running is one of the privileged ones; set_mode counts on a
\* platform that has it and with a mode it knows, lock and unlock unless the
\* caller's scope cancelled them before the answer to their request.
PrivilegedCall ==
    /\ pc # "idle"
    /\ \/ op \in {"reboot", "activate_fci", "deactivate_fci"}
       \/ op \in {"lock", "unlock"} /\ ~(log # <<>> /\ log[1][1] = "cancel")
       \/ op = "set_mode" /\ platform # "panda" /\ result # "ValueError"

\* The call began with its request, carrying the secret held when it began;
\* if the device rejected it, the call raised the request error with no
\* channel opened.
AskedWithHeldSecret ==
    /\ Len(log) >= 2
    /\ log[1][1] = "request"
    /\ log[2] = Entry(IF op \in {"activate_fci", "deactivate_fci"} THEN "token"
                      ELSE "X-Control-Token", tok0.token, "", "")
    /\ log[1][4] \notin SuccessCodes
       => (pc = "done" /\ result = "ConnectionError" /\ ~Has(log, "open"))

\* C17: lock, unlock, reboot, activate_fci, deactivate_fci and set_mode make
\* no local test of the token: each issues its request with the secret held
\* at that moment, be it empty or stale, and a rejection by the device is
\* the raised request error, for lock and unlock before any channel is opened.
C17_AlwaysAsksTheDevice == PrivilegedCall => AskedWithHeldSecret

\* The same where lock and unlock have a path for the platform, and for the
\* requests httpx can make.
AsksTheDeviceWherePathKnown ==
    (/\ PrivilegedCall
     /\ op \in {"lock", "unlock"} => platform \in {"panda", "fr3"}
     /\ op # "deactivate_fci")
    => AskedWithHeldSecret

\* deactivate_fci raises TypeError without a request, on every platform.
DeactivateNeverAsks ==
    (pc = "done" /\ op = "deactivate_fci")
    => /\ result = "TypeError"
       /\ Requested(log) = {}

-----------------------------------------------------------------------------
\* Properties of concurrent subscriptions

\* C18: the step in which a subscription takes a frame that is not JSON ends
\* that subscription there: every message before the frame has been
\* delivered, the frame is not passed over, the channel is closed, nothing is
\* delivered afterwards; and the step changes nothing of any other
\* subscription, which keeps its channel and goes on delivering.
C18_DecodeErrorIsLocal ==
    [][\A i \in Subs :
          LET s == subs[i]
              t == subs'[i]
          IN /\ (t.taken = s.taken + 1 /\ ~s.arrived[t.taken].json)
                => /\ t.st = "ended"
                   /\ t.how = "decode"
                   /\ t.closed = s.closed + 1
                   /\ t.delivered = s.delivered
                   /\ Len(s.delivered) = s.taken
                   /\ \A k \in 1..s.taken : s.delivered[k] = s.arrived[k].value
                   /\ \A j \in Subs \ {i} : subs'[j] = subs[j]
             /\ s.st = "ended" => t = s]_vars

C18_Witness ==
    \E i \in Subs :
        /\ subs[i].st = "ended"
        /\ subs[i].how = "decode"
        /\ subs[i].taken = 2
        /\ subs[i].delivered = <<Message(1)>>
        /\ \E j \in Subs \ {i} :
              /\ subs[j].st = "receiving"
              /\ subs[j].delivered = <<Message(1)>>
              /\ subs[j].closed = 0

\* C19: what the consumer of a subscription has been given is, message for
\* message and in order, the decoding of the first frames that came on the
\* subscription's own channel: none left out, none twice, none out of place.
\* While the subscription lasts every frame taken has been delivered, but
\* for the one in hand; this with two subscriptions consumed side by side.
C19_OneMessagePerFrameInOrder ==
    \A i \in Subs :
        LET s == subs[i]
        IN /\ Len(s.delivered) <= s.taken
           /\ s.taken <= Len(s.arrived)
           /\ \A k \in DOMAIN s.delivered :
                 /\ s.arrived[k].json
                 /\ s.delivered[k] = s.arrived[k].value
                 /\ s.delivered[k] = Message(k)
           /\ s.st \in {"receiving", "leaving"} => Len(s.delivered) = s.taken
           /\ s.st = "yielding" => /\ s.taken = Len(s.delivered) + 1
                                   /\ s.value = Msg(s.arrived[s.taken].value)
           /\ s.st = "ended" => s.taken <= Len(s.delivered) + 1

C19_Witness ==
    \E i \in Subs :
        /\ subs[i].delivered = <<Message(1), Message(2)>>
        /\ subs[i].stream = "admin/api/safety/status"
        /\ \E j \in Subs \ {i} :
              /\ subs[j].delivered = <<Message(1)>>
              /\ subs[j].stream = "desk/api/navigation/events"

-----------------------------------------------------------------------------
\* Where the held token and the token file change

\* C20: the held token or the token file differ after a step only if the step
\* is the save at the end of a take_control that returns True: the host's
\* record and the held token are then the issued token, the other records
\* stay.  No step of any other operation, and no other step or outcome of
\* take_control, changes either.
C20_TokenChangesOnlyOnTaking ==
    [][(token' # token \/ store' # store)
       => /\ op' = "take_control"
          /\ pc' = "done"
          /\ result' = "True"
          /\ ~Has(log, "save")
          /\ log'[Len(log')][1] = "save"
          /\ token'.id = log'[Pos(log', "issued")][2]
          /\ token'.token = log'[Pos(log', "issued")][3]
          /\ DOMAIN store' = DOMAIN store \cup {Hostname}
          /\ store'[Hostname] = token'
          /\ \A g \in DOMAIN store \ {Hostname} : store'[g] = store[g]]_vars

C20_Witness ==
    /\ pc = "done"
    /\ op = "take_control"
    /\ force
    /\ result = "True"
    /\ log[Len(log)][1] = "save"
    /\ tok0 # EmptyToken
    /\ token # tok0
    /\ store # store0
    /\ store[Hostname] = token

-----------------------------------------------------------------------------
\* When take_control asks for the confirmation

\* take_control was told of no active token, or of one that is not the held
\* one, and went on.
NotHeld ==
    /\ op = "take_control"
    /\ Has(log, "active")
    /\ ~(SeenActive # "" /\ SeenActive = tok0.id)

\* The requests of the running call, in order.
RequestsOf(l) == SelectSeq(l, LAMBDA e : e[1] = "request")

\* C21: control not being held already, take_control goes through the
\* confirmation (reads /admin/api/safety, opens the button-events channel,
\* returns True only after a circle press) when force is true, also with no
\* active token on the device, and never when force is false: a plain call
\* told of no active token that returns has posted one plain token request
\* and nothing after it, saved the issued token and returned True.
C21_ConfirmationIffForced ==
    NotHeld
    => /\ ~force
          => /\ "/admin/api/safety" \notin Requested(log)
             /\ TokenRequestUrl(TRUE) \notin Requested(log)
             /\ ~Has(log, "open")
             /\ pc \notin {"tc_safety", "wait_open", "wait_recv", "wait_close"}
             /\ (pc = "done" /\ SeenActive = "" /\ result \in {"True", "False"})
                => /\ result = "True"
                   /\ Len(RequestsOf(log)) = 2
                   /\ RequestsOf(log)[2] = Req("post", TokenRequestUrl(FALSE), 200)
                   /\ log[Len(log)][1] = "save"
                   /\ store[Hostname] = IssuedToken
                   /\ token = IssuedToken
       /\ force
          => /\ TokenRequestUrl(FALSE) \notin Requested(log)
             /\ Has(log, "issued") => pc \in {"tc_safety", "wait_open", "wait_recv",
                                               "wait_close", "done"}
             /\ Has(log, "save")
                => /\ "/admin/api/safety" \in Requested(log)
                   /\ Has(log, "open")
                   /\ Has(log, "match")
                   /\ Pos(log, "open") < Pos(log, "match")
                   /\ Pos(log, "match") < Pos(log, "save")
             /\ (pc = "done" /\ result = "True") => Has(log, "save")

C21_Witness ==
    /\ NotHeld
    /\ force
    /\ SeenActive = ""
    /\ pc = "wait_recv"
    /\ Requested(log) = {"/admin/api/control-token", TokenRequestUrl(TRUE),
                         "/admin/api/safety"}

\* The step is a circle press that confirms the forced request of the
\* running take_control: the device makes the token it issued to the call the
\* active one.  The request is pending from the moment the device accepted it
\* until its window runs out.
ConfirmingPress ==
    /\ op = "take_control"
    /\ force
    /\ Has(log, "issued")
    /\ devPending # None
    /\ Str(devPending.id) = log[Pos(log, "issued")][2]
    /\ devActive' = devPending
    /\ devPending' = None

\* C22: every circle press that confirms the forced request of a take_control
\* still under way (reading the safety settings, connecting, or waiting) is
\* seen by the call: none is lost for coming before the button-events channel
\* is open.
C22_PressInWindowIsSeen ==
    [][(ConfirmingPress /\ pc \in {"tc_safety", "wait_open", "wait_recv"})
       => Has(log', "match")]_vars

\* A press that comes once the channel is open is seen.
PressOnOpenChannelIsSeen ==
    [][(ConfirmingPress /\ pc = "wait_recv") => Has(log', "match")]_vars

-----------------------------------------------------------------------------
\* Properties of check_has_control

\* The step is a whole call of check_has_control that got its answer.
CheckStep ==
    /\ pc = "idle"
    /\ pc' = "done"
    /\ op' = "check_has_control"
    /\ result' \in {"True", "False"}

\* C23: check_has_control returns True only if the device has an active
\* token whose id is the id of the held token, the test by which take_control
\* finds control already held; with no active token it returns False, also
\* when the session holds no token.
C23_ControlNeedsActiveToken ==
    [][CheckStep
       => (result' = "True")
          = (devActive # None /\ token.id = Str(devActive.id))]_vars

\* With an active token on the device the answer is the comparison of ids.
CheckComparesWithActive ==
    [][(CheckStep /\ devActive # None)
       => (result' = "True") = (token.id = Str(devActive.id))]_vars

-----------------------------------------------------------------------------
\* Properties of the platform argument

\* Lines 69-74: the variant __init__ picks for an accepted platform string.
NormalPlatform(p) ==
    IF Text(Lower(p)) \in {"panda", "fer", "franka_emika_robot", "frankaemikarobot"}
    THEN "panda"
    ELSE "fr3"

\* lock and unlock went for the path of platform p and issued the request
\* (a call cancelled by its caller before the answer has none on record).
BrakeCallOn(p) ==
    /\ op = "lock" =>
          /\ log # <<>>
          /\ log[1][1] # "cancel" =>
                /\ log[1][1] = "request"
                /\ log[1][3] = LockUrl(p)
    /\ op = "unlock" =>
          /\ log # <<>>
          /\ log[1][1] # "cancel" =>
                /\ log[1][1] = "request"
                /\ log[1][3] = UnlockUrl(p)

\* set_mode took p for the legacy platform exactly when it is "panda".
ModeCallOn(p) ==
    (op = "set_mode" /\ pc = "done")
        => IF p = "panda"
           THEN Requested(log) = {} /\ result = "None"
           ELSE result = "ValueError" \/ Requested(log) # {}

\* C24: the session of any accepted platform string acts as the session of
\* its normalized variant: lock and unlock request the brake path of a panda
\* alias and the joints path of an fr3 alias, set_mode does nothing on a
\* panda alias; no other string gets past the constructor.
C24_ActsAsNormalizedPlatform ==
    /\ \E p \in PlatformArgs : PlatformAccepted(p) /\ platform = Text(p)
    /\ \A p \in PlatformArgs :
           (PlatformAccepted(p) /\ platform = Text(p))
           => /\ BrakeCallOn(NormalPlatform(p))
              /\ ModeCallOn(NormalPlatform(p))

\* A session made with the name of a variant itself acts as that variant.
ActsAsPlatformGivenByName ==
    platform \in {"panda", "fr3"}
        => /\ BrakeCallOn(platform)
           /\ ModeCallOn(platform)

-----------------------------------------------------------------------------
\* Properties of the held token and the token file

\* C25: whenever no call is running, the token the session holds is the
\* token a fresh load of the file gives for the session's host, the sentinel
\* if the file has no record for it; a session made after a save for the
\* host therefore starts with the saved token.
C25_HeldTokenIsStoredToken ==
    pc = "idle" => token = load_token(store, hostname)

\* The same for sessions on hosts whose name is not the name of the file's
\* section of defaults.
HeldTokenIsStoredTokenOfSection ==
    (pc = "idle" /\ hostname # "DEFAULT") => token = load_token(store, hostname)

-----------------------------------------------------------------------------
\* Properties of _request on accepted requests

\* C26: a response with a status in 200..299 (200, 201, 204, ...) makes
\* _request return the response, and nothing is raised.
C26_SuccessStatusReturns ==
    (pc = "done" /\ op = "_request" /\ Has(log, "response"))
    => \A s \in HttpStatuses :
           (log[2][2] = Str(s) /\ Accepted(s))
           => /\ result = "Response"
              /\ log[3] = Entry("return", "Response", Str(s), log[2][3])

\* A response with status 200 is returned.
Status200Returns ==
    (pc = "done" /\ op = "_request" /\ Has(log, "response") /\ log[2][2] = "200")
    => /\ result = "Response"
       /\ log[3] = Entry("return", "Response", "200", log[2][3])

=============================================================================
